---- MODULE Spec2Model ----
(***************************************************************************)
(* Model of lemmy's scheduled maintenance tasks (src/scheduled_tasks.rs):  *)
(* the setup() entry point, its four clokwerk bindings, the polling loop,  *)
(* and the five task functions, each broken into the store statements it   *)
(* issues.  Time is counted in seconds.  A failed `.expect(..)` panics and *)
(* ends the thread of control.                                             *)
(***************************************************************************)
EXTENDS Integers, Sequences, FiniteSets, TLC

(* ------------------------- program constants ------------------------- *)
SleepSecs == 1
HourSecs == 3600
FiveMinSecs == 300
WeekSecs == 604800
DaySecs == 86400
HotRankWindowSecs == 604800
\* `6.months()`, taken as 180 days of 86400 seconds
RetentionSecs == 15552000

(* ------------------------------ bounds ------------------------------- *)
\* the loop is explored up to FineHorizon; a sleep that starts between
\* FineHorizon and MaxClock overruns by SuspendSecs (a suspended host)
FineHorizon == 3700
MaxClock == 8000
SuspendSecs == 604800
\* at most MaxSlow statements of a run take SlowSecs instead of no time
MaxSlow == 1
SlowSecs == 420
\* the startup log keeps at most MaxLog calls
MaxLog == 8
\* sizes of the tables a task is called on when it is called alone
NPerson == 2
NBan == 2
NPost == 2
NActivity == 3
NInstance == 3
\* the sweep called NCalls times in a row on tables of these sizes
NCalls == 2
NSweepPerson == 2
NSweepBan == 1
\* person_mention: recipients, comments, and the ids the serial may give out
NRecipient == 2
NComment == 1
MaxMentionId == 3

(* ------------------------------ values ------------------------------- *)
None == <<>>
Some(x) == <<x>>
IsSome(o) == o # None
Unwrap(o) == o[1]

Min(S) == CHOOSE x \in S : \A y \in S : x <= y
Max2(a, b) == IF a >= b THEN a ELSE b

VARIABLES
  clock,      \* wall clock, seconds
  pc,         \* the statement the thread of control is at
  ctx,        \* "startup" | "loop" (inside setup) or "call" (a task called alone)
  todo,       \* the calls of the running block that are still to be made
  task,       \* the task function being executed, "" between tasks
  cur,        \* index of the job run_pending is executing, 0 if none
  now_rp,     \* the time run_pending sampled for this check
  jobs,       \* the scheduler's jobs, in registration order
  ac_i,       \* active_counts: index into `intervals`
  instances,  \* update_instance_software: the rows read at line 185
  idx,        \* update_instance_software: position in `instances`
  res,        \* update_instance_software: the Option<NodeInfo> just fetched
  db,         \* the relational store
  slow,       \* number of slow statements so far
  \* history variables
  err,        \* failure that ended the run: "none", or the kind of failure
  err_at,     \* the statement that failed
  t_start,    \* clock when the running task was called
  db0,        \* the store when the running task was called
  fetched,    \* instance id -> the fetch results of the running discovery cycle
  stmt_at,    \* statement -> clock at its last execution in the running task
  runs,       \* job index -> number of executions by the loop
  started,    \* call -> number of times it was started
  startup_log,\* the calls made by the startup block, in order
  executing,  \* number of task bodies begun and not yet completed
  check_calls,\* the calls made so far by the running (or last) check
  check_due,  \* the jobs that were due when that check sampled the clock
  t_reg,      \* clock when the jobs were registered
  exec_at,    \* job index -> time of the last check that found the job due
              \* (the time of registration before the first)
  \* the person_mention table and its Crud calls
  person_mention,        \* the rows of the table
  person_mention_id_seq, \* the serial that gives new rows their id
  crud_ret,              \* the last Crud call: its name, its arguments, its Result
  person_mention0        \* history: the table before the last Crud call

sched == <<ctx, todo, task, cur, now_rp, jobs>>
disc == <<instances, idx, res, fetched>>
check_hist == <<check_calls, check_due, t_reg, exec_at>>
hist_task == <<t_start, db0, runs, started, startup_log, executing, check_hist>>
crud == <<person_mention, person_mention_id_seq, crud_ret, person_mention0>>
vars == <<clock, pc, sched, ac_i, disc, db, slow, err, err_at, stmt_at, hist_task, crud>>

(* --------------------------- the call table -------------------------- *)
ActiveCounts == "active_counts"
HotRanksFull == "update_hot_ranks(false)"
HotRanksRecent == "update_hot_ranks(true)"
BanSweep == "update_banned_when_expired"
ClearOld == "clear_old_activities"
Discovery == "update_instance_software"
Calls == {ActiveCounts, HotRanksFull, HotRanksRecent, BanSweep, ClearOld, Discovery}

\* the startup block with the ban sweep left out and the windowed recompute in
StartupCalls_windowed == <<ActiveCounts, HotRanksFull, HotRanksRecent, ClearOld>>

\* lines 39-43: the calls of the startup block
StartupCalls == <<ActiveCounts, HotRanksFull, BanSweep, ClearOld>>

\* the periods of the first two bindings exchanged
Periods_swapped == <<FiveMinSecs, HourSecs, WeekSecs, DaySecs>>

\* the hourly closure making its two calls the other way round
Bodies_reordered ==
  << <<BanSweep, ActiveCounts>>, <<HotRanksRecent>>, <<ClearOld>>, <<Discovery>> >>

\* the 5-minute closure passing `false` to update_hot_ranks
Bodies_full ==
  << <<ActiveCounts, BanSweep>>, <<HotRanksFull>>, <<ClearOld>>, <<Discovery>> >>

\* the weekly closure calling update_instance_software, like the daily one
Bodies_weekly_discovery ==
  << <<ActiveCounts, BanSweep>>, <<HotRanksRecent>>, <<Discovery>>, <<Discovery>> >>

\* the hourly closure without its second call
Bodies_hourly_no_sweep ==
  << <<ActiveCounts>>, <<HotRanksRecent>>, <<ClearOld>>, <<Discovery>> >>

\* lines 45-63: the four bindings, in registration order
Periods == <<HourSecs, FiveMinSecs, WeekSecs, DaySecs>>
Bodies == << <<ActiveCounts, BanSweep>>, <<HotRanksRecent>>, <<ClearOld>>, <<Discovery>> >>
NJobs == Len(Periods)

\* the first statement of each task function
Entry(call) ==
  CASE call = ActiveCounts -> "ac_site"
    [] call \in {HotRanksFull, HotRanksRecent} -> "hr_post"
    [] call = BanSweep -> "sw_person"
    [] call = ClearOld -> "co_delete"
    [] call = Discovery -> "is_client"

\* line 132: the four windows of active_counts
intervals == <<"day", "week", "month", "half_year">>

(* ---------------------- the store's statements ----------------------- *)
\* the store's scoring function hot_rank(magnitude, reference time), evaluated
\* at `now`: it grows with the magnitude and shrinks with the age in hours
HotRank(magnitude, ts, now) ==
  (10000 * Max2(1, magnitude + 3)) \div ((Max2(0, now - ts) \div 3600) + 2)

\* the filter left out: every row is updated whatever last_week_only
InWindow_all(last_week_only, published, now) == TRUE

\* lines 79-85: the filter `published > now - 1 week`, only if last_week_only
InWindow(last_week_only, published, now) ==
  (~last_week_only) \/ published > now - HotRankWindowSecs

\* lines 90-99
update_post_hot_ranks(tbl, last_week_only, now) ==
  [id \in DOMAIN tbl |->
    IF InWindow(last_week_only, tbl[id].published, now)
    THEN [tbl[id] EXCEPT
            !.hot_rank = HotRank(tbl[id].score, tbl[id].published, now),
            !.hot_rank_active =
               HotRank(tbl[id].score, tbl[id].newest_comment_time_necro, now)]
    ELSE tbl[id]]

\* lines 101-107
update_comment_hot_ranks(tbl, last_week_only, now) ==
  [id \in DOMAIN tbl |->
    IF InWindow(last_week_only, tbl[id].published, now)
    THEN [tbl[id] EXCEPT !.hot_rank = HotRank(tbl[id].score, tbl[id].published, now)]
    ELSE tbl[id]]

\* lines 109-115
update_community_hot_ranks(tbl, last_week_only, now) ==
  [id \in DOMAIN tbl |->
    IF InWindow(last_week_only, tbl[id].published, now)
    THEN [tbl[id] EXCEPT
            !.hot_rank = HotRank(tbl[id].subscribers, tbl[id].published, now)]
    ELSE tbl[id]]

\* the comparison turned round
IsOldActivity_inverted(published, now) == published > now - RetentionSecs

\* line 122: the filter `published < now - 6 months`
IsOldActivity(published, now) == published < now - RetentionSecs

\* lines 122-124
delete_old_activities(tbl, now) == {r \in tbl : ~IsOldActivity(r.published, now)}

\* the comparison with `now` turned round
BanHasExpired_inverted(row, now) ==
  row.banned /\ IsSome(row.ban_expires) /\ Unwrap(row.ban_expires) > now

\* a ban without expiry taken as expired
BanHasExpired_or_null(row, now) ==
  row.banned /\ (row.ban_expires = None \/ Unwrap(row.ban_expires) < now)

\* lines 162-164: `banned = true AND ban_expires < now` (false on a NULL expiry)
BanHasExpired(row, now) ==
  row.banned /\ IsSome(row.ban_expires) /\ Unwrap(row.ban_expires) < now

\* the flag negated instead of cleared, the filter on `banned` left out
update_person_banned_toggle(tbl, now) ==
  [id \in DOMAIN tbl |->
    IF IsSome(tbl[id].ban_expires) /\ Unwrap(tbl[id].ban_expires) < now
    THEN [tbl[id] EXCEPT !.banned = ~@] ELSE tbl[id]]

\* lines 161-168
update_person_banned(tbl, now) ==
  [id \in DOMAIN tbl |->
    IF BanHasExpired(tbl[id], now) THEN [tbl[id] EXCEPT !.banned = FALSE] ELSE tbl[id]]

\* line 170: the filter `expires < now` (false on a NULL expiry)
CommunityBanHasExpired(row, now) == IsSome(row.expires) /\ Unwrap(row.expires) < now

\* lines 170-172
delete_expired_community_bans(tbl, now) ==
  {r \in tbl : ~CommunityBanHasExpired(r, now)}

\* lines 140-151: one users_active_<col> column recomputed as of `now`
refresh_users_active(tbl, scope, col, now) == [tbl EXCEPT ![<<scope, col>>] = Some(now)]

\* lines 200-206: the form built from a decoded NodeInfo (InstanceFormOf;
\* InstanceFormOf_url is the form given the request's path as its domain)
\* `software.and_then(|s| s.name.clone())`, `software.and_then(|s| s.version.clone())`
SoftwareName(software) == IF IsSome(software) THEN Unwrap(software).name ELSE None
SoftwareVersion(software) == IF IsSome(software) THEN Unwrap(software).version ELSE None
InstanceFormOf_url(domain, node_info, now) ==
  [domain |-> "nodeinfo/2.0.json",
   software |-> SoftwareName(node_info.software),
   version |-> SoftwareVersion(node_info.software),
   updated |-> Some(now)]
InstanceFormOf(domain, node_info, now) ==
  [domain |-> domain,
   software |-> SoftwareName(node_info.software),
   version |-> SoftwareVersion(node_info.software),
   updated |-> Some(now)]

\* the changeset of an InstanceForm applied to a row: software, version and
\* updated take the form's values, an absent one stored as NULL
ApplyInstanceForm(row, form) ==
  [row EXCEPT !.domain = form.domain, !.software = form.software,
              !.version = form.version, !.updated = form.updated]

\* the row written only when the document names the software
update_instance_if_named(tbl, id, form) ==
  IF IsSome(form.software)
  THEN [tbl EXCEPT ![id] = ApplyInstanceForm(tbl[id], form)]
  ELSE tbl

\* lines 208-211
update_instance(tbl, id, form) == [tbl EXCEPT ![id] = ApplyInstanceForm(tbl[id], form)]

(* --------------------------- the scheduler --------------------------- *)
\* a job of the scheduler: its period and the time of its last run (the time
\* of registration until it has run)
new_job(period, now) == [period |-> period, last_run |-> now]

\* a job is due when the time elapsed since its last run is at least its period
is_pending(job, now) == now - job.last_run >= job.period

\* the next run counted from the time the job was due, not from the check
\* that ran it: the periods missed are made up one check after the other
executed_catch_up(job, now) == [job EXCEPT !.last_run = @ + job.period]

\* a job that was executed by the check that sampled `now`
executed(job, now) == [job EXCEPT !.last_run = now]

\* lines 46-63: the four jobs, in registration order
register_jobs(now) == [k \in 1..NJobs |-> new_job(Periods[k], now)]

\* run_pending walks the jobs in order: the first due job at or after `from`
FirstPending(from, js, now) ==
  LET S == {k \in from..Len(js) : is_pending(js[k], now)}
  IN IF S = {} THEN 0 ELSE Min(S)

(* ------------------------------ the store ---------------------------- *)
Person(banned, ban_expires) == [banned |-> banned, ban_expires |-> ban_expires]
CommunityBan(id, expires) == [id |-> id, expires |-> expires]
Post(score, published, necro, rank) ==
  [score |-> score, published |-> published, newest_comment_time_necro |-> necro,
   hot_rank |-> rank, hot_rank_active |-> rank]
Comment(score, published, rank) ==
  [score |-> score, published |-> published, hot_rank |-> rank]
Community(subscribers, published, rank) ==
  [subscribers |-> subscribers, published |-> published, hot_rank |-> rank]
Activity(id, published) == [id |-> id, published |-> published]
InstanceRow(domain, software, version) ==
  [domain |-> domain, software |-> software, version |-> version, updated |-> None]

NoCounters == [k \in {"site", "community"} \X {"day", "week", "month", "half_year"} |-> None]

\* the store setup() is started on
SampleDb ==
  [person |-> <<Person(TRUE, Some(1800)), Person(TRUE, None), Person(TRUE, Some(-100))>>,
   community_person_ban |->
     {CommunityBan(1, Some(1800)), CommunityBan(2, None), CommunityBan(3, Some(-100))},
   post_aggregates |-> <<Post(10, -8 * DaySecs, -8 * DaySecs, 0),
                         Post(10, -3 * DaySecs, -3 * DaySecs, 0)>>,
   comment_aggregates |-> <<Comment(10, -3 * DaySecs, 0)>>,
   community_aggregates |-> <<Community(5, -8 * DaySecs, 0)>>,
   activity |-> {Activity(1, -RetentionSecs - 1),
                 Activity(2, 3 * DaySecs - RetentionSecs),
                 Activity(3, 0)},
   instance |-> <<InstanceRow("a.example", Some("mastodon"), Some("4.0")),
                  InstanceRow("b.example", None, None)>>,
   users_active |-> NoCounters]

\* no Crud call made yet
NoCall == [op |-> "", args |-> <<>>, result |-> [ok |-> TRUE, rows |-> {}, error |-> ""]]

Statements ==
  {"ac_site", "ac_comm", "hr_post", "hr_comment", "hr_community", "co_delete",
   "sw_person", "sw_cban", "is_client", "is_read", "is_fetch", "is_update"}
NotRun == [l \in Statements |-> None]

\* every variable but clock, sched, db: nothing running, nothing recorded
Idle ==
  /\ ac_i = 0 /\ instances = <<>> /\ idx = 0 /\ res = None
  /\ slow = 0 /\ err = "none" /\ err_at = ""
  /\ t_start = 0 /\ fetched = <<>> /\ stmt_at = NotRun
  /\ runs = [k \in 1..NJobs |-> 0]
  /\ started = [c \in Calls |-> 0]
  /\ startup_log = <<>>
  /\ executing = 0
  /\ check_calls = <<>> /\ check_due = {} /\ t_reg = 0
  /\ exec_at = [k \in 1..NJobs |-> 0]
  /\ person_mention = {} /\ person_mention_id_seq = 1
  /\ crud_ret = NoCall /\ person_mention0 = {}

\* setup() entered, connections established, about to make the startup calls
Init ==
  /\ clock = 0
  /\ pc = "call" /\ ctx = "startup" /\ todo = StartupCalls /\ task = ""
  /\ cur = 0 /\ now_rp = 0 /\ jobs = <<>>
  /\ db = SampleDb /\ db0 = SampleDb
  /\ Idle

(* ------------------------- statements of a task ---------------------- *)
\* a statement takes no time, or SlowSecs while the budget of slow ones lasts
Durs == IF slow < MaxSlow THEN {0, SlowSecs} ELSE {0}

\* the Err dropped (`.ok()` in place of `.expect(..)`): execution goes on
expect_ignored(nextpc) == nextpc

\* `.expect(..)` on an Err: the thread panics; nextpc is where an Ok goes on
expect_failed(nextpc) == "aborted"

\* a statement sent to the store through `.execute(conn).expect(..)`
StoreStmt(newdb, nextpc) ==
  \/ \E d \in Durs :
       /\ db' = newdb
       /\ pc' = nextpc
       /\ clock' = clock + d
       /\ slow' = IF d = 0 THEN slow ELSE slow + 1
       /\ stmt_at' = [stmt_at EXCEPT ![pc] = Some(clock)]
       /\ UNCHANGED <<err, err_at, crud>>
  \/ /\ pc' = expect_failed(nextpc)
     /\ err' = "store"
     /\ err_at' = pc
     /\ UNCHANGED <<db, clock, slow, stmt_at, crud>>

\* a function is called: the next call of the running block
Call ==
  /\ pc = "call"
  /\ todo # <<>>
  /\ LET c == Head(todo) IN
       /\ task' = c
       /\ pc' = Entry(c)
       /\ started' = [started EXCEPT ![c] = @ + 1]
       /\ startup_log' = IF ctx = "startup" /\ Len(startup_log) < MaxLog
                         THEN Append(startup_log, c) ELSE startup_log
  /\ todo' = Tail(todo)
  /\ t_start' = clock
  /\ db0' = db
  /\ executing' = executing + 1
  /\ check_calls' = IF ctx = "loop" THEN Append(check_calls, Head(todo)) ELSE check_calls
  /\ UNCHANGED <<check_due, t_reg, exec_at>>
  /\ ac_i' = 1
  /\ instances' = <<>> /\ idx' = 0 /\ res' = None /\ fetched' = <<>>
  /\ stmt_at' = NotRun
  /\ UNCHANGED <<clock, ctx, cur, now_rp, jobs, db, slow, err, err_at, runs, crud>>

\* lines 139-146: update site_aggregates set users_active_<col>
AcSite ==
  /\ pc = "ac_site"
  /\ StoreStmt([db EXCEPT !.users_active =
                  refresh_users_active(@, "site", intervals[ac_i], clock)],
               "ac_comm")
  /\ UNCHANGED <<sched, ac_i, disc, hist_task>>

\* lines 148-152: update community_aggregates set users_active_<col>
AcComm ==
  /\ pc = "ac_comm"
  /\ StoreStmt([db EXCEPT !.users_active =
                  refresh_users_active(@, "community", intervals[ac_i], clock)],
               IF ac_i < Len(intervals) THEN "ac_site" ELSE "ret")
  /\ ac_i' = IF pc' = "ac_site" THEN ac_i + 1 ELSE ac_i
  /\ UNCHANGED <<sched, disc, hist_task>>

\* line 73: the parameter of update_hot_ranks
last_week_only == task = HotRanksRecent

\* lines 90-99
HrPost ==
  /\ pc = "hr_post"
  /\ StoreStmt([db EXCEPT !.post_aggregates =
                  update_post_hot_ranks(@, last_week_only, clock)],
               "hr_comment")
  /\ UNCHANGED <<sched, ac_i, disc, hist_task>>

\* lines 101-107
HrComment ==
  /\ pc = "hr_comment"
  /\ StoreStmt([db EXCEPT !.comment_aggregates =
                  update_comment_hot_ranks(@, last_week_only, clock)],
               "hr_community")
  /\ UNCHANGED <<sched, ac_i, disc, hist_task>>

\* lines 109-116
HrCommunity ==
  /\ pc = "hr_community"
  /\ StoreStmt([db EXCEPT !.community_aggregates =
                  update_community_hot_ranks(@, last_week_only, clock)],
               "ret")
  /\ UNCHANGED <<sched, ac_i, disc, hist_task>>

\* lines 120-126
CoDelete ==
  /\ pc = "co_delete"
  /\ StoreStmt([db EXCEPT !.activity = delete_old_activities(@, clock)], "ret")
  /\ UNCHANGED <<sched, ac_i, disc, hist_task>>

\* lines 161-168
SwPerson ==
  /\ pc = "sw_person"
  /\ StoreStmt([db EXCEPT !.person = update_person_banned(@, clock)], "sw_cban")
  /\ UNCHANGED <<sched, ac_i, disc, hist_task>>

\* lines 170-173
SwCban ==
  /\ pc = "sw_cban"
  /\ StoreStmt([db EXCEPT !.community_person_ban =
                  delete_expired_community_bans(@, clock)],
               "ret")
  /\ UNCHANGED <<sched, ac_i, disc, hist_task>>

(* ------------------------ update_instance_software ------------------- *)
\* what a peer's nodeinfo document can decode to: the software block absent,
\* or present with each of name and version present or absent
NodeInfos ==
  {[software |-> None]} \cup
  {[software |-> Some([name |-> n, version |-> v])] :
     n \in {None, Some("lemmy")}, v \in {None, Some("0.17")}}

\* lines 193-197: `.send().ok().and_then(|t| t.json().ok())`: None when the
\* request fails or the body does not decode
FetchOutcomes == {None} \cup {Some(ni) : ni \in NodeInfos}

\* lines 179-183
IsClient ==
  /\ pc = "is_client"
  /\ \/ pc' = "is_read" /\ UNCHANGED <<err, err_at>>
     \/ pc' = expect_failed("is_read") /\ err' = "client" /\ err_at' = pc
  /\ UNCHANGED <<clock, sched, ac_i, disc, db, slow, stmt_at, hist_task, crud>>

\* lines 185-187
IsRead ==
  /\ pc = "is_read"
  /\ StoreStmt(db, IF Len(db.instance) = 0 THEN "ret" ELSE "is_fetch")
  /\ IF pc' = "aborted"
     THEN UNCHANGED <<instances, idx>>
     ELSE /\ instances' = [k \in 1..Len(db.instance) |->
                             [id |-> k, domain |-> db.instance[k].domain,
                              software |-> db.instance[k].software,
                              version |-> db.instance[k].version,
                              updated |-> db.instance[k].updated]]
          /\ idx' = 1
  /\ UNCHANGED <<sched, ac_i, res, fetched, hist_task>>

\* line 189: the statement after the body of the loop for instances[idx]
AfterInstance == IF idx < Len(instances) THEN "is_fetch" ELSE "ret"

\* a failed fetch ending the thread (`.unwrap()` on the response)
after_skip_panic(nextpc) == "aborted"

\* a failed fetch ending the cycle (`break` / early return)
after_skip_break(nextpc) == "ret"

\* lines 199, 212: a peer whose fetch gave None is skipped
after_skip(nextpc) == nextpc

\* lines 190-199
IsFetch ==
  /\ pc = "is_fetch"
  /\ \E r \in FetchOutcomes, d \in Durs :
       /\ res' = r
       /\ fetched' = (instances[idx].id :> r) @@ fetched
       /\ pc' = IF IsSome(r) THEN "is_update" ELSE after_skip(AfterInstance)
       /\ idx' = IF IsSome(r) THEN idx ELSE idx + 1
       /\ clock' = clock + d
       /\ slow' = IF d = 0 THEN slow ELSE slow + 1
  /\ stmt_at' = [stmt_at EXCEPT ![pc] = Some(clock)]
  /\ UNCHANGED <<sched, ac_i, instances, db, err, err_at, hist_task, crud>>

\* lines 200-211
IsUpdate ==
  /\ pc = "is_update"
  /\ StoreStmt([db EXCEPT !.instance =
                  update_instance(@, instances[idx].id,
                    InstanceFormOf(instances[idx].domain, Unwrap(res), clock))],
               AfterInstance)
  /\ idx' = IF pc' = "aborted" THEN idx ELSE idx + 1
  /\ UNCHANGED <<sched, ac_i, instances, res, fetched, hist_task>>

(* ------------------------------- setup ------------------------------- *)
\* a function returns
Returned ==
  /\ task' = ""
  /\ executing' = executing - 1
  /\ UNCHANGED <<clock, ac_i, disc, db, slow, err, err_at, stmt_at,
                 t_start, db0, started, startup_log, check_hist, crud>>

\* the running block has more calls to make
ReturnMore ==
  /\ pc = "ret" /\ todo # <<>>
  /\ pc' = "call"
  /\ Returned
  /\ UNCHANGED <<ctx, todo, cur, now_rp, jobs, runs>>

\* line 43: the startup block is over
ReturnStartup ==
  /\ pc = "ret" /\ todo = <<>> /\ ctx = "startup"
  /\ pc' = "register"
  /\ Returned
  /\ UNCHANGED <<ctx, todo, cur, now_rp, jobs, runs>>

\* lines 45-63
Register ==
  /\ pc = "register"
  /\ jobs' = register_jobs(clock)
  /\ ctx' = "loop"
  /\ pc' = "run_pending"
  /\ t_reg' = clock
  /\ exec_at' = [k \in 1..NJobs |-> clock]
  /\ UNCHANGED <<clock, todo, task, cur, now_rp, ac_i, disc, db, slow, err, err_at,
                 stmt_at, t_start, db0, runs, started, startup_log, executing,
                 check_calls, check_due, crud>>

\* the loop left after a check (`break`, or a single pass): setup returns
loop_after_check_exit == "returned"

\* lines 66-69: `loop { .. }` has no exit: after the check comes the sleep
loop_after_check == "sleep"

\* run_pending goes on to job k (0: no further job is due, the check is over)
Dispatch(k) ==
  IF k = 0
  THEN pc' = loop_after_check /\ cur' = 0 /\ todo' = <<>> /\ runs' = runs
  ELSE pc' = "call" /\ cur' = k /\ todo' = Bodies[k]
       /\ runs' = [runs EXCEPT ![k] = @ + 1]

\* line 67: run_pending samples the clock and executes the due jobs in order
RunPending ==
  /\ pc = "run_pending"
  /\ now_rp' = clock
  /\ Dispatch(FirstPending(1, jobs, clock))
  /\ check_calls' = <<>>
  /\ check_due' = {k \in 1..Len(jobs) : is_pending(jobs[k], clock)}
  /\ exec_at' = [k \in 1..NJobs |-> IF k \in check_due' THEN clock ELSE exec_at[k]]
  /\ UNCHANGED <<clock, ctx, task, jobs, ac_i, disc, db, slow, err, err_at, stmt_at,
                 t_start, db0, started, startup_log, executing, t_reg, crud>>

\* the closure of job cur returns: the job is rescheduled, the walk goes on
ReturnJob ==
  /\ pc = "ret" /\ todo = <<>> /\ ctx = "loop"
  /\ jobs' = [jobs EXCEPT ![cur] = executed(@, now_rp)]
  /\ Dispatch(FirstPending(cur + 1, jobs', now_rp))
  /\ Returned
  /\ UNCHANGED <<ctx, now_rp>>

\* the earliest time at which one of the jobs becomes due
NextDue == Min({jobs[k].last_run + jobs[k].period : k \in 1..Len(jobs)})

\* the number of iterations of the loop up to the first check that finds a job
\* due: every check before it executes nothing
IdleSleeps ==
  LET gap == NextDue - clock
  IN Max2(1, (gap + SleepSecs - 1) \div SleepSecs)

\* the iterations of `loop { run_pending(); sleep(1 s) }` explored from here:
\* a single one (as long as no statement has been slow), the idle ones up to the
\* next due time taken together, and past FineHorizon only a sleep that overruns
\* by SuspendSecs (the host was suspended)
SleepCounts ==
  IF clock < FineHorizon
  THEN (IF slow = 0 THEN {1} ELSE {}) \cup {IdleSleeps}
  ELSE {}

\* lines 66-69: n iterations, the checks of all but the last sleep finding
\* nothing due
Sleep ==
  /\ pc = "sleep"
  /\ \E n \in SleepCounts :
       /\ clock' = clock + n * SleepSecs
       /\ now_rp' = IF n = 1 THEN now_rp ELSE clock' - SleepSecs
  /\ pc' = "run_pending"
  /\ UNCHANGED <<ctx, todo, task, cur, jobs, ac_i, disc, db, slow, err, err_at,
                 stmt_at, hist_task, crud>>

\* line 68: a sleep that lasts SuspendSecs longer than asked
SleepSuspended ==
  /\ pc = "sleep"
  /\ FineHorizon <= clock /\ clock <= MaxClock
  /\ clock' = clock + SleepSecs + SuspendSecs
  /\ pc' = "run_pending"
  /\ UNCHANGED <<sched, ac_i, disc, db, slow, err, err_at, stmt_at, hist_task, crud>>

TaskStep ==
  \/ Call
  \/ AcSite \/ AcComm
  \/ HrPost \/ HrComment \/ HrCommunity
  \/ CoDelete
  \/ SwPerson \/ SwCban
  \/ IsClient \/ IsRead \/ IsFetch \/ IsUpdate

Next ==
  \/ TaskStep
  \/ ReturnMore \/ ReturnStartup \/ ReturnJob
  \/ Register \/ RunPending \/ Sleep \/ SleepSuspended

Spec == Init /\ [][Next]_vars

(* ------------------------ a task called alone ------------------------ *)
\* the function returns to the caller
ReturnCall ==
  /\ pc = "ret" /\ todo = <<>> /\ ctx = "call"
  /\ pc' = "returned"
  /\ Returned
  /\ UNCHANGED <<ctx, todo, cur, now_rp, jobs, runs>>

\* expiry times around the time of the call (0) and of a slow statement
Expiries == {None, Some(-DaySecs), Some(0), Some(1), Some(DaySecs)}
PersonRows == {Person(b, e) : b \in BOOLEAN, e \in Expiries}
BanTables ==
  {{CommunityBan(k, f[k][2]) : k \in {j \in 1..NBan : f[j][1]}} :
     f \in [1..NBan -> BOOLEAN \X Expiries]}

\* published times around the 7-day window
PubTimes == {-8 * DaySecs, -HotRankWindowSecs, 1 - HotRankWindowSecs, -3 * DaySecs}
PostRows == {Post(10, p, n, 7) : p \in PubTimes, n \in {-1}} \cup
            {Post(10, p, p, 7) : p \in PubTimes}
CommentRows == {Comment(10, p, 7) : p \in PubTimes}
CommunityRows == {Community(5, p, 7) : p \in PubTimes}

\* published times around the retention horizon
ActivityTimes == {-RetentionSecs - 1, -RetentionSecs, 1 - RetentionSecs, 0}
ActivityTables ==
  {{Activity(k, f[k][2]) : k \in {j \in 1..NActivity : f[j][1]}} :
     f \in [1..NActivity -> BOOLEAN \X ActivityTimes]}

Domains == <<"a.example", "b.example", "c.example", "d.example", "e.example">>
InstanceTables ==
  {[k \in 1..NInstance |->
      IF k \in S THEN InstanceRow(Domains[k], Some("mastodon"), Some("4.0"))
      ELSE InstanceRow(Domains[k], None, None)] : S \in SUBSET (1..NInstance)}

\* the stores a call is made on: the tables it works on drawn from the sets above
TaskDbs(c) ==
  CASE c = BanSweep ->
         {[SampleDb EXCEPT !.person = p, !.community_person_ban = b] :
            p \in [1..NPerson -> PersonRows], b \in BanTables}
    [] c \in {HotRanksFull, HotRanksRecent} ->
         {[SampleDb EXCEPT !.post_aggregates = p, !.comment_aggregates = <<cm>>,
                           !.community_aggregates = <<cy>>] :
            p \in [1..NPost -> PostRows], cm \in CommentRows, cy \in CommunityRows}
    [] c = ClearOld -> {[SampleDb EXCEPT !.activity = a] : a \in ActivityTables}
    [] c = Discovery -> {[SampleDb EXCEPT !.instance = i] : i \in InstanceTables}
    [] OTHER -> {SampleDb}

\* one task function called at time 0 on a store drawn from TaskDbs
InitTask ==
  /\ clock = 0
  /\ pc = "call" /\ ctx = "call" /\ task = ""
  /\ cur = 0 /\ now_rp = 0 /\ jobs = <<>>
  /\ \E c \in Calls :
       /\ todo = <<c>>
       /\ db \in TaskDbs(c)
  /\ db0 = db
  /\ Idle

NextTask == TaskStep \/ ReturnCall

SpecTask == InitTask /\ [][NextTask]_vars

(* ------------------ the ban sweep called several times --------------- *)
\* the tables the repeated sweep is called on
SweepDbs ==
  {[SampleDb EXCEPT !.person = p, !.community_person_ban = b] :
     p \in [1..NSweepPerson -> PersonRows],
     b \in {{CommunityBan(k, f[k][2]) : k \in {j \in 1..NSweepBan : f[j][1]}} :
              f \in [1..NSweepBan -> BOOLEAN \X Expiries]}}

\* update_banned_when_expired called NCalls times in a row, from time 0
InitSweeps ==
  /\ clock = 0
  /\ pc = "call" /\ ctx = "call" /\ task = ""
  /\ cur = 0 /\ now_rp = 0 /\ jobs = <<>>
  /\ todo = [k \in 1..NCalls |-> BanSweep]
  /\ db \in SweepDbs
  /\ db0 = db
  /\ Idle

NextSweeps == Call \/ SwPerson \/ SwCban \/ ReturnMore \/ ReturnCall

SpecSweeps == InitSweeps /\ [][NextSweeps]_vars

(* --------------------------- person_mention -------------------------- *)
\* Result<_, Error> of a Crud call: the rows returned, or the error
Ok(rows) == [ok |-> TRUE, rows |-> rows, error |-> ""]
Err(e) == [ok |-> FALSE, rows |-> {}, error |-> e]

\* the struct PersonMention (a row), PersonMentionInsertForm, PersonMentionUpdateForm
PersonMention(id, recipient_id, comment_id, read, published) ==
  [id |-> id, recipient_id |-> recipient_id, comment_id |-> comment_id,
   read |-> read, published |-> published]
PersonMentionInsertForm(recipient_id, comment_id, read) ==
  [recipient_id |-> recipient_id, comment_id |-> comment_id, read |-> read]
PersonMentionUpdateForm(read) == [read |-> read]

\* `.set(form)`: the columns the form gives a value; a None is left out
set_form(row, form) ==
  [row EXCEPT !.read = IF IsSome(form.read) THEN Unwrap(form.read) ELSE @]

\* the rows an insert of `form` conflicts with on (recipient_id, comment_id)
conflicting(tbl, form) ==
  {r \in tbl : r.recipient_id = form.recipient_id /\ r.comment_id = form.comment_id}

\* a plain insert, no `on_conflict`: a second row for the pair is refused by the
\* unique index and the call returns the error
create_plain_insert(tbl, seq, form, now) ==
  IF conflicting(tbl, form) # {}
  THEN [tbl |-> tbl, seq |-> seq + 1, result |-> Err("UniqueViolation")]
  ELSE LET row == PersonMention(seq, form.recipient_id, form.comment_id,
                                IF IsSome(form.read) THEN Unwrap(form.read) ELSE FALSE,
                                now)
       IN [tbl |-> tbl \cup {row}, seq |-> seq + 1, result |-> Ok({row})]

\* lines 17-30: insert, or on a conflict on (recipient_id, comment_id) update the
\* row that is there with the form; the row written is returned.  A new row
\* gets the next value of the serial, read = false unless the form says
\* otherwise (lines 136-148), and published = now; the serial advances on
\* every call.
create(tbl, seq, form, now) ==
  LET old == conflicting(tbl, form) IN
  IF old # {}
  THEN LET new == {set_form(r, form) : r \in old}
       IN [tbl |-> (tbl \ old) \cup new, seq |-> seq + 1, result |-> Ok(new)]
  ELSE LET row == PersonMention(seq, form.recipient_id, form.comment_id,
                                IF IsSome(form.read) THEN Unwrap(form.read) ELSE FALSE,
                                now)
       IN [tbl |-> tbl \cup {row}, seq |-> seq + 1, result |-> Ok({row})]

\* lines 12-15: `find(id).first()`
read(tbl, person_mention_id) ==
  LET found == {r \in tbl : r.id = person_mention_id}
  IN IF found = {} THEN Err("NotFound") ELSE Ok(found)

\* lines 32-41: `update(find(id)).set(form).get_result()`
update(tbl, person_mention_id, form) ==
  LET found == {r \in tbl : r.id = person_mention_id}
      new == {set_form(r, form) : r \in found}
  IN IF found = {}
     THEN [tbl |-> tbl, result |-> Err("NotFound")]
     ELSE [tbl |-> (tbl \ found) \cup new, result |-> Ok(new)]

\* lines 45-57
mark_all_as_read(tbl, for_recipient_id) ==
  LET found == {r \in tbl : r.recipient_id = for_recipient_id /\ ~r.read}
      new == {[r EXCEPT !.read = TRUE] : r \in found}
  IN [tbl |-> (tbl \ found) \cup new, result |-> Ok(new)]

\* lines 59-69
read_by_comment_and_person(tbl, for_comment_id, for_recipient_id) ==
  LET found == {r \in tbl : r.comment_id = for_comment_id
                             /\ r.recipient_id = for_recipient_id}
  IN IF found = {} THEN Err("NotFound") ELSE Ok(found)

RecipientIds == 1..NRecipient
CommentIds == 1..NComment
InsertForms ==
  {PersonMentionInsertForm(r, c, rd) :
     r \in RecipientIds, c \in CommentIds, rd \in {None, Some(FALSE), Some(TRUE)}}
UpdateForms == {PersonMentionUpdateForm(Some(rd)) : rd \in BOOLEAN}

\* a Crud call returns: what the caller and the history keep of it
Crud(op, args, result) ==
  /\ crud_ret' = [op |-> op, args |-> args, result |-> result]
  /\ person_mention0' = person_mention
  /\ UNCHANGED <<pc, sched, ac_i, disc, db, slow, err, err_at, stmt_at, hist_task>>

MentionCreate ==
  /\ pc = "crud"
  /\ person_mention_id_seq <= MaxMentionId
  /\ \E form \in InsertForms :
       LET c == create(person_mention, person_mention_id_seq, form, clock) IN
       /\ person_mention' = c.tbl
       /\ person_mention_id_seq' = c.seq
       /\ clock' = clock + 1
       /\ Crud("create", <<form>>, c.result)

MentionRead ==
  /\ pc = "crud"
  /\ \E id \in 1..MaxMentionId :
       Crud("read", <<id>>, read(person_mention, id))
  /\ UNCHANGED <<clock, person_mention, person_mention_id_seq>>

MentionUpdate ==
  /\ pc = "crud"
  /\ \E id \in 1..MaxMentionId, form \in UpdateForms :
       LET u == update(person_mention, id, form) IN
       /\ person_mention' = u.tbl
       /\ Crud("update", <<id, form>>, u.result)
  /\ UNCHANGED <<clock, person_mention_id_seq>>

MentionMarkAllAsRead ==
  /\ pc = "crud"
  /\ \E r \in RecipientIds :
       LET m == mark_all_as_read(person_mention, r) IN
       /\ person_mention' = m.tbl
       /\ Crud("mark_all_as_read", <<r>>, m.result)
  /\ UNCHANGED <<clock, person_mention_id_seq>>

MentionReadByCommentAndPerson ==
  /\ pc = "crud"
  /\ \E c \in CommentIds, r \in RecipientIds :
       Crud("read_by_comment_and_person", <<c, r>>,
            read_by_comment_and_person(person_mention, c, r))
  /\ UNCHANGED <<clock, person_mention, person_mention_id_seq>>

\* a connection on an empty person_mention table, the Crud calls made on it
InitMention ==
  /\ clock = 0
  /\ pc = "crud" /\ ctx = "crud" /\ todo = <<>> /\ task = ""
  /\ cur = 0 /\ now_rp = 0 /\ jobs = <<>>
  /\ db = SampleDb /\ db0 = db
  /\ Idle

NextMention ==
  \/ MentionCreate \/ MentionRead \/ MentionUpdate
  \/ MentionMarkAllAsRead \/ MentionReadByCommentAndPerson

SpecMention == InitMention /\ [][NextMention]_vars

(* ----------------------- the loop, run for ever ---------------------- *)
\* The loop of lines 66-69 with every recorded time kept relative to the
\* present (clock stays 0): when d seconds pass, the sample of the running
\* check and the last run of every job move d seconds into the past.  A last
\* run more than a period older than `ref`, the time the next due test is
\* made for, is kept as exactly one period older, which the due test cannot
\* tell apart.  A task body is one step: it terminates after some time, or fails.
Elapse(js, d, ref) ==
  [k \in DOMAIN js |->
     [js[k] EXCEPT !.last_run = Max2(@ - d, ref - js[k].period)]]

live_frame ==
  <<clock, ctx, ac_i, disc, db, err_at, stmt_at, t_start, db0, runs, started,
    startup_log, executing, t_reg, exec_at, crud>>

\* run_pending goes on to job k (0: the check is over)
LiveDispatch(k) ==
  IF k = 0
  THEN pc' = loop_after_check /\ cur' = 0 /\ todo' = <<>>
  ELSE pc' = "call" /\ cur' = k /\ todo' = Bodies[k]

\* line 67
LiveRunPending ==
  /\ pc = "run_pending"
  /\ now_rp' = clock
  /\ LiveDispatch(FirstPending(1, jobs, clock))
  /\ check_calls' = <<>>
  /\ check_due' = {k \in 1..Len(jobs) : is_pending(jobs[k], clock)}
  /\ UNCHANGED <<task, jobs, slow, err, live_frame>>

\* the closure of job cur makes its next call
LiveCall ==
  /\ pc = "call" /\ todo # <<>>
  /\ task' = Head(todo)
  /\ todo' = Tail(todo)
  /\ check_calls' = Append(check_calls, Head(todo))
  /\ pc' = "body"
  /\ UNCHANGED <<cur, now_rp, jobs, slow, err, check_due, live_frame>>

\* lines 73-215: the body of the called function runs to its end, taking no
\* time or SlowSecs, or a `.expect(..)` of it fails
LiveBody ==
  /\ pc = "body"
  /\ \/ \E d \in Durs :
          /\ pc' = "ret"
          /\ jobs' = Elapse(jobs, d, now_rp - d)
          /\ now_rp' = now_rp - d
          /\ slow' = IF d = 0 THEN slow ELSE slow + 1
          /\ err' = err
     \/ /\ pc' = expect_failed("ret")
        /\ err' = "store"
        /\ UNCHANGED <<jobs, now_rp, slow>>
  /\ UNCHANGED <<todo, task, cur, check_calls, check_due, live_frame>>

\* the called function returns: the closure goes on, or it returns too, the job is
\* rescheduled and the walk goes on
LiveReturn ==
  /\ pc = "ret"
  /\ task' = ""
  /\ IF todo # <<>>
     THEN pc' = "call" /\ UNCHANGED <<todo, cur, jobs>>
     ELSE /\ jobs' = [jobs EXCEPT ![cur] = executed(@, now_rp)]
          /\ LiveDispatch(FirstPending(cur + 1, jobs', now_rp))
  /\ UNCHANGED <<now_rp, slow, err, check_calls, check_due, live_frame>>

\* lines 66-69: the iterations up to the first check that finds a job due, or
\* one sleep that overruns by SuspendSecs
LiveSleep ==
  /\ pc = "sleep"
  /\ \E d \in {IdleSleeps * SleepSecs, SleepSecs + SuspendSecs} :
       jobs' = Elapse(jobs, d, clock)
  /\ pc' = "run_pending"
  /\ UNCHANGED <<todo, task, cur, now_rp, slow, err, check_calls, check_due, live_frame>>

\* setup() after line 63: the startup calls made, the four jobs registered
InitLive ==
  /\ clock = 0
  /\ pc = "run_pending" /\ ctx = "loop" /\ todo = <<>> /\ task = ""
  /\ cur = 0 /\ now_rp = 0 /\ jobs = register_jobs(0)
  /\ db = SampleDb /\ db0 = db
  /\ Idle

NextLive == LiveRunPending \/ LiveCall \/ LiveBody \/ LiveReturn \/ LiveSleep

\* the one thread of setup() takes its next step whenever it has one: a sleep
\* ends, a check goes on, a task body comes to its end
SpecLive == InitLive /\ [][NextLive]_vars /\ WF_vars(NextLive)

(* ============================== claims =============================== *)
Range(q) == {q[i] : i \in DOMAIN q}
IsPrefix(p, q) == Len(p) <= Len(q) /\ \A i \in 1..Len(p) : p[i] = q[i]

\* the period the source gives the binding that makes call c
C1_PeriodOf(c) ==
  CASE c \in {ActiveCounts, BanSweep} -> HourSecs
    [] c \in {HotRanksRecent, HotRanksFull} -> FiveMinSecs
    [] c = ClearOld -> WeekSecs
    [] c = Discovery -> DaySecs

\* C1: a binding is executed by a check only when the time since its last run
\* (its registration, before the first) is at least its period; with every sleep
\* one second and no statement slow, 59 minutes after registration the hourly
\* binding has not run and the 5-minute binding has run 11 times, and after 61
\* minutes the hourly binding has run exactly once.
C1_DueOnlyAfterPeriod ==
  /\ (ctx = "loop" /\ task # "") =>
        now_rp - jobs[cur].last_run >= C1_PeriodOf(task)
  /\ (ctx = "loop" /\ slow = 0 /\ clock = t_reg + 59 * 60) =>
        (runs[1] = 0 /\ runs[2] = 11)
  /\ (ctx = "loop" /\ slow = 0 /\ clock = t_reg + 61 * 60) => runs[1] = 1

C1_Witness ==
  /\ ctx = "loop" /\ slow = 0 /\ pc = "sleep"
  /\ clock = t_reg + 61 * 60
  /\ runs[1] = 1 /\ runs[2] = 12

C2_Order == <<ActiveCounts, BanSweep, HotRanksRecent, ClearOld, Discovery>>
C2_Pos(c) == CHOOSE i \in 1..Len(C2_Order) : C2_Order[i] = c
C2_CallsOf(k) ==
  CASE k = 1 -> {ActiveCounts, BanSweep}
    [] k = 2 -> {HotRanksRecent}
    [] k = 3 -> {ClearOld}
    [] k = 4 -> {Discovery}

\* C2: at most one task body is executing; the calls of one check are made one
\* after the other, each begun when none is running, in binding order (recount,
\* ban sweep, windowed recompute, pruner, discovery) and none twice; only
\* bindings that were due when the check sampled the clock are executed, and
\* when the check is over all of them have been.
C2_OneAtATimeInOrder ==
  /\ executing <= 1
  /\ (pc = "call" => executing = 0)
  /\ (pc \in Statements \cup {"ret"} => executing = 1)
  /\ ctx = "loop" =>
       /\ Range(check_calls) \subseteq Range(C2_Order)
       /\ \A i, j \in DOMAIN check_calls :
            i < j => C2_Pos(check_calls[i]) < C2_Pos(check_calls[j])
       /\ Range(check_calls) \subseteq UNION {C2_CallsOf(k) : k \in check_due}
       /\ (pc = "sleep" =>
             Range(check_calls) = UNION {C2_CallsOf(k) : k \in check_due})

C2_Witness ==
  /\ ctx = "loop" /\ pc = "sleep"
  /\ check_calls = C2_Order
  /\ check_due = {1, 2, 3, 4}

C3_StartupOrder == <<ActiveCounts, HotRanksFull, BanSweep, ClearOld>>

\* C3: before the first check, startup has made exactly the calls recount, full
\* recompute, ban sweep, pruner, each once and in this order; the windowed
\* recompute and discovery are not run at startup, and discovery is not run
\* before a day has passed since registration.
C3_StartupRunsFourInOrder ==
  /\ ctx = "startup" =>
       /\ IsPrefix(startup_log, C3_StartupOrder)
       /\ \A k \in 1..NJobs : runs[k] = 0
  /\ ctx = "loop" => startup_log = C3_StartupOrder
  /\ (ctx \in {"startup", "loop"} /\ \A k \in 1..NJobs : runs[k] = 0) =>
       /\ started[HotRanksRecent] = 0 /\ started[Discovery] = 0
       /\ \A c \in Range(C3_StartupOrder) :
            started[c] = (IF c \in Range(startup_log) THEN 1 ELSE 0)
  /\ (ctx = "loop" /\ started[Discovery] > 0) => clock - t_reg >= DaySecs

C3_Witness ==
  /\ ctx = "loop" /\ pc = "run_pending" /\ clock = t_reg
  /\ \A k \in 1..NJobs : runs[k] = 0
  /\ startup_log = C3_StartupOrder
  /\ started[Discovery] = 0

\* C4: the full-history recompute is run once, at startup, and never again:
\* every recompute made by the loop is the windowed one.
C4_FullRecomputeOnlyAtStartup ==
  /\ started[HotRanksFull] <= 1
  /\ ctx = "loop" =>
       /\ started[HotRanksFull] = 1
       /\ task # HotRanksFull
       /\ (pc \in {"hr_post", "hr_comment", "hr_community"} => last_week_only)

C4_Witness ==
  /\ ctx = "loop" /\ pc = "hr_community" /\ last_week_only
  /\ started[HotRanksFull] = 1 /\ started[HotRanksRecent] >= 2

StoreLocalStmts ==
  {"ac_site", "ac_comm", "hr_post", "hr_comment", "hr_community", "co_delete",
   "sw_person", "sw_cban"}

\* C5: when a statement of the recount, the recompute, the pruner or the ban sweep
\* fails with a store error, the run ends at that statement: the step that fails
\* changes nothing in the store and starts nothing, control is at "aborted", and
\* no step is ever taken afterwards.
C5_StoreErrorAborts ==
  [][/\ ~(err = "store" /\ err_at \in StoreLocalStmts)
     /\ (err' = "store" /\ err_at' \in StoreLocalStmts) =>
          /\ pc \in StoreLocalStmts /\ err_at' = pc
          /\ pc' = "aborted"
          /\ db' = db /\ started' = started /\ runs' = runs]_vars

C5_Witness ==
  /\ ctx = "loop" /\ pc = "aborted"
  /\ err = "store" /\ err_at = "sw_person"
  /\ todo = <<>> /\ check_due = {1, 2}

\* C6 as stated: no failure during a discovery cycle ends the run.
C6_NoDiscoveryFailureIsFatal == ~(task = Discovery /\ pc = "aborted")

\* C6, amended: a peer whose request fails or whose response does not decode
\* never ends the run: the cycle goes on with the next peer, or returns, and the
\* loop goes on; the run ends inside discovery only on a store error while the
\* instance list is read or an instance row is written, or when the HTTP client
\* cannot be built.
C6_OnlyPeerFailuresAreSwallowed ==
  /\ (task = Discovery /\ pc = "aborted") =>
       \/ err = "store" /\ err_at \in {"is_read", "is_update"}
       \/ err = "client" /\ err_at = "is_client"
  /\ (task = Discovery /\ pc \in {"is_fetch", "is_update", "ret"}) =>
       /\ err = "none"
       /\ (res = None /\ fetched # <<>>) =>
             /\ pc \in {"is_fetch", "ret"}
             /\ idx = Cardinality(DOMAIN fetched) + 1
             /\ (pc = "ret" <=> idx > Len(instances))

C6_Witness ==
  /\ ctx = "loop" /\ pc = "sleep" /\ err = "none"
  /\ started[Discovery] = 1
  /\ DOMAIN fetched = {1, 2}
  /\ \A k \in DOMAIN fetched : fetched[k] = None

\* C7: in one discovery cycle that meets no store error every peer is polled; a
\* peer whose fetch fails keeps its row as it was; a peer whose fetch succeeds
\* has its last-updated time set and the software name and version of the
\* response written to its row, whatever happened to the other peers.
C7_PeerIsolation ==
  (started[Discovery] = 1 /\ pc \in {"ret", "returned"}) =>
    /\ err = "none"
    /\ DOMAIN fetched = DOMAIN db0.instance
    /\ DOMAIN db.instance = DOMAIN db0.instance
    /\ \A k \in DOMAIN db0.instance :
         LET old == db0.instance[k]
             new == db.instance[k]
         IN IF fetched[k] = None
            THEN new = old
            ELSE LET sw == Unwrap(fetched[k]).software IN
                 /\ new.domain = old.domain
                 /\ IsSome(new.updated)
                 /\ t_start <= Unwrap(new.updated) /\ Unwrap(new.updated) <= clock
                 /\ (IsSome(sw) /\ IsSome(Unwrap(sw).name)) =>
                       new.software = Unwrap(sw).name
                 /\ (IsSome(sw) /\ IsSome(Unwrap(sw).version)) =>
                       new.version = Unwrap(sw).version

C7_Witness ==
  /\ pc = "returned" /\ started[Discovery] = 1 /\ err = "none"
  /\ Len(db0.instance) = 3
  /\ IsSome(fetched[1]) /\ fetched[2] = None /\ IsSome(fetched[3])
  /\ db0.instance[2].software = Some("mastodon")
  /\ db.instance[2] = db0.instance[2]
  /\ db.instance[1].software = Some("lemmy") /\ db.instance[1].version = Some("0.17")
  /\ db.instance[3].software = Some("lemmy") /\ db.instance[3].version = Some("0.17")
  /\ db0.instance[1].software = Some("mastodon") /\ db0.instance[3].software = None

\* C8: after one ban sweep, called at t_start and finished at clock: an identity
\* that was banned with an expiry before t_start is not banned, an identity
\* whose expiry is after clock is unchanged, a community ban whose expiry was
\* before t_start is gone, one whose expiry is after clock is still there; no row
\* is left banned with an expiry before t_start.
C8_SweepClearsExpiredBans ==
  (started[BanSweep] = 1 /\ pc = "returned") =>
    /\ DOMAIN db.person = DOMAIN db0.person
    /\ \A p \in DOMAIN db0.person :
         LET old == db0.person[p]
             new == db.person[p]
         IN /\ (old.banned /\ IsSome(old.ban_expires) /\ Unwrap(old.ban_expires) < t_start)
                 => ~new.banned
            /\ (IsSome(old.ban_expires) /\ Unwrap(old.ban_expires) > clock) => new = old
            /\ ~(new.banned /\ IsSome(new.ban_expires) /\ Unwrap(new.ban_expires) < t_start)
    /\ db.community_person_ban \subseteq db0.community_person_ban
    /\ \A r \in db0.community_person_ban :
         /\ (IsSome(r.expires) /\ Unwrap(r.expires) < t_start)
              => r \notin db.community_person_ban
         /\ (IsSome(r.expires) /\ Unwrap(r.expires) > clock)
              => r \in db.community_person_ban

C8_Witness ==
  /\ pc = "returned" /\ started[BanSweep] = 1
  /\ db0.person[1] = Person(TRUE, Some(-DaySecs)) /\ ~db.person[1].banned
  /\ db0.person[2] = Person(TRUE, Some(DaySecs)) /\ db.person[2].banned
  /\ CommunityBan(1, Some(-DaySecs)) \in db0.community_person_ban
  /\ CommunityBan(1, Some(-DaySecs)) \notin db.community_person_ban
  /\ CommunityBan(2, Some(DaySecs)) \in db.community_person_ban

\* the rows of a collection after its recompute statement ran at time t
C9_Recomputed(old, new, windowed, t, magnitude) ==
  /\ DOMAIN new = DOMAIN old
  /\ \A k \in DOMAIN old :
       IF windowed /\ old[k].published <= t - 7 * DaySecs
       THEN new[k] = old[k]
       ELSE /\ new[k].hot_rank = HotRank(old[k][magnitude], old[k].published, t)
            /\ new[k].published = old[k].published
            /\ new[k][magnitude] = old[k][magnitude]

\* C9: a windowed recompute changes the ranks only of the rows published within
\* the 7 days before the statement runs and leaves every older row as it was; a
\* full recompute gives every row of the post, comment and community collections
\* the rank computed at the time of the statement.
C9_WindowedRecompute ==
  (started[HotRanksRecent] + started[HotRanksFull] = 1 /\ pc = "returned") =>
    LET windowed == started[HotRanksRecent] = 1 IN
    /\ C9_Recomputed(db0.post_aggregates, db.post_aggregates, windowed,
                     Unwrap(stmt_at["hr_post"]), "score")
    /\ \A k \in DOMAIN db0.post_aggregates :
         LET old == db0.post_aggregates[k] IN
         db.post_aggregates[k].hot_rank_active =
           IF windowed /\ old.published <= Unwrap(stmt_at["hr_post"]) - 7 * DaySecs
           THEN old.hot_rank_active
           ELSE HotRank(old.score, old.newest_comment_time_necro,
                        Unwrap(stmt_at["hr_post"]))
    /\ C9_Recomputed(db0.comment_aggregates, db.comment_aggregates, windowed,
                     Unwrap(stmt_at["hr_comment"]), "score")
    /\ C9_Recomputed(db0.community_aggregates, db.community_aggregates, windowed,
                     Unwrap(stmt_at["hr_community"]), "subscribers")

C9_Witness ==
  /\ pc = "returned" /\ started[HotRanksRecent] = 1
  /\ db0.post_aggregates[1] = Post(10, -8 * DaySecs, -8 * DaySecs, 7)
  /\ db0.post_aggregates[2] = Post(10, -3 * DaySecs, -3 * DaySecs, 7)
  /\ db.post_aggregates[1] = db0.post_aggregates[1]
  /\ db.post_aggregates[2].hot_rank = HotRank(10, -3 * DaySecs, 0)
  /\ db.post_aggregates[2].hot_rank # 7

\* C10: one run of the pruner at time t_start deletes every activity row
\* published before t_start minus 6 months, keeps every row published after it,
\* and adds none.
C10_PrunerHorizon ==
  (started[ClearOld] = 1 /\ pc = "returned") =>
    /\ db.activity \subseteq db0.activity
    /\ \A r \in db0.activity :
         /\ r.published < t_start - 180 * DaySecs => r \notin db.activity
         /\ r.published > t_start - 180 * DaySecs => r \in db.activity

C10_Witness ==
  /\ pc = "returned" /\ started[ClearOld] = 1
  /\ Activity(1, -180 * DaySecs - 1) \in db0.activity
  /\ Activity(1, -180 * DaySecs - 1) \notin db.activity
  /\ Activity(2, 1 - 180 * DaySecs) \in db0.activity
  /\ Activity(2, 1 - 180 * DaySecs) \in db.activity

\* C11: the ban sweep is idempotent: when the sweep is run again with the clock
\* where it was when the first run was called, the run that follows the first
\* (and every later one) changes no row of the identity table and deletes no
\* row of the community-ban table: the store stays as the run before left it.
C11_SweepIdempotent ==
  (started[BanSweep] >= 2 /\ clock = 0) =>
    /\ db.person = db0.person
    /\ db.community_person_ban = db0.community_person_ban

C11_Witness ==
  /\ pc = "returned" /\ started[BanSweep] = 2 /\ clock = 0 /\ err = "none"
  /\ db = db0
  /\ db.person[1] = Person(FALSE, Some(-DaySecs))
  /\ db.person[2] = Person(TRUE, Some(DaySecs))
  /\ db.community_person_ban = {}

\* C12: when a store error ends a run inside the recompute or inside the ban
\* sweep, the store holds none of that call's updates: the three aggregate
\* collections are as they were when update_hot_ranks was called (never one
\* re-ranked and another not), and the identity table is as it was when the
\* sweep was called (never bans cleared with the expired community bans still
\* there).
C12_NoPartialCompletion ==
  (pc = "aborted" /\ err = "store") =>
    /\ task \in {HotRanksFull, HotRanksRecent} =>
         /\ db.post_aggregates = db0.post_aggregates
         /\ db.comment_aggregates = db0.comment_aggregates
         /\ db.community_aggregates = db0.community_aggregates
    /\ task = BanSweep =>
         /\ db.person = db0.person
         /\ db.community_person_ban = db0.community_person_ban

\* C13: setup never returns: control never reaches the end of setup, the
\* thread ends only where a fatal error was raised, and as long as none was
\* raised there is always a next step (within the explored time: the model
\* takes no sleep that starts after MaxClock).
C13_SetupNeverReturns ==
  /\ pc # "returned"
  /\ (pc = "aborted" <=> err # "none")
  /\ (err = "none" /\ ~(pc = "sleep" /\ clock > MaxClock)) => ENABLED Next

C13_Witness ==
  /\ ctx = "loop" /\ pc = "sleep" /\ err = "none"
  /\ clock > WeekSecs
  /\ \A k \in 1..NJobs : runs[k] >= 1

\* C14: the person_mention table never holds two rows for one (recipient,
\* comment) pair; every create returns Ok with one row, which carries the
\* form's pair and is in the table; when the pair had a row, that row is the
\* one returned (same id, same published time) and the table has not grown,
\* otherwise the row is new; and a read by the returned id gives back exactly
\* the record create returned.
C14_OneMentionPerPair ==
  /\ \A x, y \in person_mention :
       (x.recipient_id = y.recipient_id /\ x.comment_id = y.comment_id) => x = y
  /\ crud_ret.op = "create" =>
       LET form == crud_ret.args[1]
           got == crud_ret.result
           before == {r \in person_mention0 : r.recipient_id = form.recipient_id
                                               /\ r.comment_id = form.comment_id}
       IN /\ got.ok
          /\ Cardinality(got.rows) = 1
          /\ got.rows \subseteq person_mention
          /\ \A row \in got.rows :
               /\ row.recipient_id = form.recipient_id
               /\ row.comment_id = form.comment_id
               /\ read(person_mention, row.id) = got
               /\ IF before # {}
                  THEN /\ \E old \in before :
                            row.id = old.id /\ row.published = old.published
                       /\ Cardinality(person_mention) = Cardinality(person_mention0)
                  ELSE /\ \A old \in person_mention0 : old.id # row.id
                       /\ person_mention = person_mention0 \cup {row}

C14_Witness ==
  /\ crud_ret.op = "create" /\ crud_ret.result.ok
  /\ crud_ret.args[1] = PersonMentionInsertForm(1, 1, Some(TRUE))
  /\ PersonMention(1, 1, 1, FALSE, 0) \in person_mention0
  /\ person_mention = {PersonMention(1, 1, 1, TRUE, 0), PersonMention(2, 2, 1, FALSE, 1)}
  /\ person_mention_id_seq = 4

\* the name / version a decoded document carries: None when the software block
\* or the field is absent
C15_DocField(doc, field) ==
  IF doc.software = None THEN None ELSE Unwrap(doc.software)[field]

C16_InstanceRowsFrame ==
  [][/\ DOMAIN db'.instance = DOMAIN db.instance
     /\ \A k \in DOMAIN db.instance : db'.instance[k].domain = db.instance[k].domain
     /\ db'.instance # db.instance =>
          /\ task = Discovery /\ pc = "is_update" /\ IsSome(res)
          /\ fetched[instances[idx].id] = res
          /\ \A k \in DOMAIN db.instance :
               db'.instance[k] # db.instance[k] => k = instances[idx].id]_vars

C16_Witness ==
  /\ ctx = "loop" /\ pc = "sleep" /\ started[Discovery] = 1
  /\ db.instance[1].domain = "a.example" /\ db.instance[1].software = Some("lemmy")
  /\ IsSome(db.instance[1].updated)
  /\ db.instance[2] = InstanceRow("b.example", None, None)
  /\ started[ClearOld] = 2 /\ started[BanSweep] = 2

\* C17: no step of a sweep adds or removes an identity or touches a ban-expiry
\* timestamp; a step that changes an identity is the sweep's UPDATE clearing the
\* banned flag of a banned identity whose expiry is before the time of the
\* statement; an identity banned without expiry is still banned after the step.
\* Holding of every step, it holds over any number of sweeps.
C17_SweepFrame ==
  [][/\ DOMAIN db'.person = DOMAIN db.person
     /\ \A p \in DOMAIN db.person :
          LET old == db.person[p]
              new == db'.person[p]
          IN /\ new.ban_expires = old.ban_expires
             /\ new # old =>
                  /\ pc = "sw_person"
                  /\ old.banned /\ ~new.banned
                  /\ IsSome(old.ban_expires) /\ Unwrap(old.ban_expires) < clock
             /\ (old.banned /\ old.ban_expires = None) => new.banned]_vars

C17_Witness ==
  /\ pc = "returned" /\ started[BanSweep] = 2 /\ clock = SlowSecs
  /\ db.person[1] = Person(TRUE, None)
  /\ db0.person[2] = Person(TRUE, Some(1))
  /\ db.person[2] = Person(FALSE, Some(1))

\* C18: when a run of the pruner has made its delete, no activity row published
\* more than 6 months before the start of that run exists; once startup is over,
\* no row that was older than 6 months when setup started exists; once the
\* weekly binding has run, no row older than 6 months at the time of the check
\* that ran it exists; and no check ends with a week or more elapsed since the
\* pruner's binding last ran, so a row that crosses the horizon is deleted by
\* the run of the next week.
C18_RetentionHorizon ==
  /\ (task = ClearOld /\ pc = "ret") =>
       \A r \in db.activity : r.published >= t_start - RetentionSecs
  /\ ctx = "loop" =>
       /\ started[ClearOld] >= 1
       /\ \A r \in db.activity : r.published >= 0 - RetentionSecs
  /\ (ctx = "loop" /\ runs[3] >= 1 /\ cur # 3) =>
       \A r \in db.activity : r.published >= jobs[3].last_run - RetentionSecs
  /\ (ctx = "loop" /\ pc = "sleep") => now_rp - jobs[3].last_run < WeekSecs

C18_Witness ==
  /\ ctx = "loop" /\ pc = "sleep" /\ runs[3] = 1
  /\ jobs[3].last_run >= t_reg + WeekSecs
  /\ Activity(2, 3 * DaySecs - RetentionSecs) \in SampleDb.activity
  /\ db.activity = {Activity(3, 0)}

C19_Period(k) ==
  CASE k = 1 -> HourSecs [] k = 2 -> FiveMinSecs [] k = 3 -> WeekSecs [] k = 4 -> DaySecs

\* C19: no call is made twice in one check and a binding is executed at most
\* once per check, only if the check found it due; a check finds a binding due
\* only if a full period has passed since the check that last executed it (its
\* registration, before the first), however long the tasks in between ran and
\* however many periods were missed, and a binding whose period has passed is
\* found due by the check.
C19_NoCatchUpBurst ==
  [][/\ \A i, j \in DOMAIN check_calls' : i # j => check_calls'[i] # check_calls'[j]
     /\ \A k \in 1..NJobs :
          runs'[k] # runs[k] => (runs'[k] = runs[k] + 1 /\ k \in check_due')
     /\ pc = "run_pending" =>
          \A k \in 1..NJobs :
            (k \in check_due') <=> (now_rp' - exec_at[k] >= C19_Period(k))]_vars

C19_Witness ==
  /\ ctx = "loop" /\ pc = "sleep" /\ slow = 1
  /\ now_rp >= t_reg + WeekSecs
  /\ check_due = {1, 2, 3, 4}
  /\ runs[1] = 2 /\ runs[3] = 1 /\ runs[4] = 1 /\ runs[2] < 20

\* C20: in every run of the loop in which no fatal error occurs and every task
\* body comes to its end, each binding is executed again and again without end,
\* with each of its calls (recount and ban sweep by the hourly one, the
\* windowed recompute by the 5-minute one, the pruner by the weekly one,
\* discovery by the daily one); and every binding a check finds due has made
\* its calls when that check is over, whichever other bindings were due.
C20_NoStarvation ==
  ([](err = "none")) =>
    /\ \A k \in 1..NJobs : \A c \in C2_CallsOf(k) :
         []<>(pc = "body" /\ cur = k /\ task = c)
    /\ [](pc = "sleep" =>
            \A k \in check_due : C2_CallsOf(k) \subseteq Range(check_calls))

C20_Witness ==
  /\ pc = "sleep" /\ err = "none" /\ clock = 0 /\ t_reg = 0
  /\ jobs = register_jobs(0)
  /\ check_due = {1, 2, 3, 4}
  /\ check_calls = C2_Order

====
